---------------------------- MODULE Spec2Model ----------------------------
(***************************************************************************)
(* Boid simulation: the control plane (Controller.py), the run loop        *)
(* (Simulation.run) and the agents (Boid.py) as one state machine.         *)
(*                                                                         *)
(* Two units of execution are interleaved at the granularity of the        *)
(* shared reads and writes of the code: the control unit (the GUI          *)
(* thread running the button handlers) and the run unit (the thread        *)
(* running _simulation_runner).                                            *)
(*                                                                         *)
(* Geometry: agents live on the x axis of the cube (y = z = 0, velocity    *)
(* and forces along x).  That line is closed under the code's dynamics,    *)
(* so every behaviour of the model is a behaviour of the program; on it    *)
(* scale_to_length(L) of a non-zero vector is sign * L and of the zero     *)
(* vector raises ValueError, exactly as pygame does.                       *)
(***************************************************************************)
EXTENDS Integers, Sequences, FiniteSets, TLC

VARIABLES
    simulation,         \* Controller.simulation: TRUE iff an object is held
    simulation_thread,  \* Controller.simulation_thread: 0 = None, else thread id
    alive,              \* thread ids of run units started and not terminated
    pause_event, stop_event, update_event,   \* the three threading.Event
    ctl,                \* control unit: handler position and its locals
    starts,             \* number of _start_simulation calls made
    threads,            \* number of run units created; the latest one's id
    target,             \* num_boids of the latest start() or update() on a Simulation
    ops,                \* number of button handlers begun
    sim,                \* fields of the Simulation object
    boids,              \* Simulation.boids, a list of Boid objects
    next_id,            \* identity of the next Boid object constructed
    pc,                 \* run unit: position in init_sim / run
    running, frame,     \* locals of Simulation.run
    i, todo,            \* run unit: loop index of the physics pass, loop counter of a resize
    ticks,              \* iterations of the main loop begun in this run
    \* history of the iteration of the loop in progress (reset when it ends):
    flocked, integrated, \* ids of the agents that ran flock / update
    used,               \* the parameters the physics pass has read
    seen                \* what the polls of the events found

vars == <<simulation, simulation_thread, alive, pause_event, stop_event,
          update_event, ctl, starts, threads, target, ops, sim, boids, next_id, pc,
          running, frame, i, todo, ticks, flocked, integrated, used, seen>>

ctlVars == <<simulation, simulation_thread, ctl, starts, threads, target, ops>>
events == <<pause_event, stop_event, update_event>>
runLocals == <<pc, running, frame, i, todo, ticks, flocked, integrated, used, seen>>
history == <<flocked, integrated, used, seen>>

-----------------------------------------------------------------------------
(* Bounds of the model *)

\* iterations of the main loop a run may begin before only a stopping one may start
MaxTicks == 1
\* button presses (handlers begun) in a behaviour
MaxOps == 3

(* Program constants *)

\* constants.CUBE_SIZE (constants.py is not part of the sources at hand)
CUBE_SIZE == 40
\* Boid.group = None
NoGroup == -1
\* constants.DEFAULT_BOID_COLOR
DEFAULT_BOID_COLOR == <<"default">>

\* Parameter snapshots the sliders may hold when Start or Update is pressed.
\* max_force is kept a multiple of 5 and max_speed of 3, boid_size even, so that
\* alignment_force*0.2, max_speed/3 and boid_size*separation_radius/2 are integers.
ParamSets ==
    { [num_boids |-> 2, boid_size |-> 2, separation_radius |-> 2,
       cohesion_radius |-> 3, alignment_radius |-> 4, max_speed |-> 3, max_force |-> 5],
      [num_boids |-> 1, boid_size |-> 4, separation_radius |-> 1,
       cohesion_radius |-> 2, alignment_radius |-> 1, max_speed |-> 6, max_force |-> 5] }

\* The draws of the n-th Boid construction of a run: random.uniform position (x)
\* and the random heading (sign of velocity.x before scale_to_length).  One
\* stream of draws is followed: odd constructions land at 0 heading up, even
\* ones at 10 heading down, so that agents meet both at distance 0 and apart.
Spawns(n) == IF n % 2 = 1 THEN { <<0, 1>> } ELSE { <<10, -1>> }

\* The draw of flock's random branch: 0 when random.random() >= 0.1, else the
\* sign of the x component of the random direction
Impulses == {-1, 0, 1}

\* num_frames handed to Simulation(): 0 stands for None, else FPS * duration
FrameBudgets == {0, 1}

-----------------------------------------------------------------------------
(* pygame.math.Vector3 on the x axis *)

Abs(x) == IF x < 0 THEN -x ELSE x
Sgn(x) == IF x < 0 THEN -1 ELSE IF x > 0 THEN 1 ELSE 0

\* Vector3.distance_to
distance_to(p, q) == Abs(p - q)

\* Vector3.scale_to_length of a non-zero vector (the zero vector raises)
scale_to_length(v, len) == Sgn(v) * len

Range(s) == { s[k] : k \in DOMAIN s }

RECURSIVE SumSeq(_)
SumSeq(s) == IF s = <<>> THEN 0 ELSE Head(s) + SumSeq(Tail(s))

RECURSIVE ProdSeq(_)
ProdSeq(s) == IF s = <<>> THEN 1 ELSE Head(s) * ProdSeq(Tail(s))

\* Sub-sequence of the elements of s whose index is in keep, order kept
RECURSIVE SelectIdx(_, _, _)
SelectIdx(s, keep, k) ==
    IF k > Len(s) THEN <<>>
    ELSE (IF k \in keep THEN <<s[k]>> ELSE <<>>) \o SelectIdx(s, keep, k + 1)

-----------------------------------------------------------------------------
(* Boid.py *)

\* Boid.__init__: the radii are scaled by boid_size; velocity is the random
\* heading scaled to max_speed/3
NewBoid(id, x, heading, boid_size, separation_radius, cohesion_radius, alignment_radius, max_speed, max_force) ==
    [ id |-> id,
      boid_size |-> boid_size,
      separation_radius |-> (boid_size * separation_radius) \div 2,
      cohesion_radius |-> boid_size * cohesion_radius,
      alignment_radius |-> boid_size * alignment_radius,
      max_speed |-> max_speed,
      max_force |-> max_force,
      position |-> x,
      velocity |-> scale_to_length(heading, max_speed \div 3),
      acceleration |-> 0,
      color |-> DEFAULT_BOID_COLOR,
      group |-> NoGroup ]

\* The steering transform shared by _separate, _align and _cohesion:
\*   if v.length() > 0: v.scale_to_length(max_speed); v -= velocity;
\*                      v.scale_to_length(max_force)
\* raised: the second scale_to_length is applied to the zero vector
Steer(b, v) ==
    IF v = 0 THEN [raised |-> FALSE, force |-> 0]
    ELSE LET desired == scale_to_length(v, b.max_speed)
             diff == desired - b.velocity
         IN IF diff = 0 THEN [raised |-> TRUE, force |-> 0]
            ELSE [raised |-> FALSE, force |-> scale_to_length(diff, b.max_force)]

\* Boid._separate.  The sum of the unit offsets scaled to 1/distance is kept as
\* a fraction over the product of the distances; only its sign is used.
\* (distance == 0 is replaced by 0.001, which is inside any radius >= 1, and
\* diff has length 0 then, so the neighbour is counted but adds nothing.)
_separate(b, bs) ==
    LET Near(o) == /\ o.id # b.id
                   /\ IF distance_to(b.position, o.position) = 0
                      THEN b.separation_radius > 0
                      ELSE distance_to(b.position, o.position) < b.separation_radius
        near == SelectIdx(bs, {k \in DOMAIN bs : Near(bs[k])}, 1)
        Apart(o) == o.position # b.position
        apart == SelectIdx(near, {k \in DOMAIN near : Apart(near[k])}, 1)
        dist == [k \in DOMAIN apart |-> distance_to(b.position, apart[k].position)]
        den == ProdSeq(dist)
        num == SumSeq([k \in DOMAIN apart |->
                          Sgn(b.position - apart[k].position) * (den \div dist[k])])
    IN IF Len(near) > 0 THEN Steer(b, num) ELSE [raised |-> FALSE, force |-> 0]

\* An alignment that lacks `if boid != self`: the agent is its own neighbour
AlignCountingSelf(b, bs) ==
    LET Near(o) == distance_to(b.position, o.position) < b.alignment_radius
        near == SelectIdx(bs, {k \in DOMAIN bs : Near(bs[k])}, 1)
        total == SumSeq([k \in DOMAIN near |-> near[k].velocity])
    IN IF Len(near) > 0 THEN Steer(b, total) ELSE [raised |-> FALSE, force |-> 0]

\* Boid._align: average velocity of the neighbours within alignment_radius
_align(b, bs) ==
    LET Near(o) == /\ o.id # b.id
                   /\ distance_to(b.position, o.position) < b.alignment_radius
        near == SelectIdx(bs, {k \in DOMAIN bs : Near(bs[k])}, 1)
        total == SumSeq([k \in DOMAIN near |-> near[k].velocity])
    IN IF Len(near) > 0 THEN Steer(b, total) ELSE [raised |-> FALSE, force |-> 0]

\* Boid._cohesion: average offset to the neighbours within cohesion_radius
_cohesion(b, bs) ==
    LET Near(o) == /\ o.id # b.id
                   /\ distance_to(b.position, o.position) < b.cohesion_radius
        near == SelectIdx(bs, {k \in DOMAIN bs : Near(bs[k])}, 1)
        total == SumSeq([k \in DOMAIN near |-> near[k].position - b.position])
    IN IF Len(near) > 0 THEN Steer(b, total) ELSE [raised |-> FALSE, force |-> 0]

\* Boid._stay_in_cube (x axis)
_stay_in_cube(b) ==
    LET border_radius == b.boid_size * 2
        max_force == b.max_force * 5
    IN IF b.position < -(CUBE_SIZE \div 2) + border_radius THEN max_force
       ELSE IF b.position > (CUBE_SIZE \div 2) - border_radius THEN -max_force
       ELSE 0

\* Boid.flock.  impulse: 0 when random.random() >= 0.1, else the sign of the
\* random direction.  The three neighbour forces are computed first, so a
\* ValueError of any of them is raised whatever the draw.
\* (_align_to_center is computed and dropped; it never raises on the x axis.)
FlockRaises(b, bs) ==
    _separate(b, bs).raised \/ _align(b, bs).raised \/ _cohesion(b, bs).raised

flock(b, bs, impulse) ==
    IF impulse # 0
    THEN [b EXCEPT !.acceleration = @ + impulse * b.max_force * 4]
    ELSE [b EXCEPT !.acceleration = @ + _separate(b, bs).force * 2
                                      + (_align(b, bs).force * 2) \div 10
                                      + _cohesion(b, bs).force
                                      + _stay_in_cube(b)]

\* Boid.update: velocity.scale_to_length raises on the zero vector
UpdateRaises(b) == b.velocity + b.acceleration = 0

update(b) ==
    LET v == scale_to_length(b.velocity + b.acceleration, b.max_speed)
    IN [b EXCEPT !.velocity = v, !.position = @ + v, !.acceleration = 0]

\* Boid._update_args, assignment f of its six; p is the snapshot
BoidUpdateField(b, p, f) ==
    CASE f = 1 -> [b EXCEPT !.boid_size = p.boid_size]
      [] f = 2 -> [b EXCEPT !.separation_radius = (b.boid_size * p.separation_radius) \div 2]
      [] f = 3 -> [b EXCEPT !.cohesion_radius = b.boid_size * p.cohesion_radius]
      [] f = 4 -> [b EXCEPT !.alignment_radius = b.boid_size * p.alignment_radius]
      [] f = 5 -> [b EXCEPT !.max_speed = p.max_speed]
      [] OTHER -> [b EXCEPT !.max_force = p.max_force]

\* Boid._update_args as the control unit runs it: in two steps, the geometry
\* (boid_size and the three radii, assignments 1-4) and the limits (max_speed
\* and max_force, assignments 5-6); the run unit may run between the two
BoidSteps == 2

BoidUpdateStep(b, p, g) ==
    IF g = 1
    THEN BoidUpdateField(BoidUpdateField(BoidUpdateField(BoidUpdateField(b, p, 1), p, 2), p, 3), p, 4)
    ELSE BoidUpdateField(BoidUpdateField(b, p, 5), p, 6)

-----------------------------------------------------------------------------
(* Simulation.py: the object and its pure helpers *)

\* Simulation.__init__: the parameters are stored as given (unscaled)
NewSimulation(p, num_frames) ==
    [ num_boids |-> p.num_boids,
      boid_size |-> p.boid_size,
      separation_radius |-> p.separation_radius,
      cohesion_radius |-> p.cohesion_radius,
      alignment_radius |-> p.alignment_radius,
      max_speed |-> p.max_speed,
      max_force |-> p.max_force,
      num_frames |-> num_frames ]

\* Simulation._update_args, assignment f of its seven
SimUpdateField(s, p, f) ==
    CASE f = 1 -> [s EXCEPT !.num_boids = p.num_boids]
      [] f = 2 -> [s EXCEPT !.boid_size = p.boid_size]
      [] f = 3 -> [s EXCEPT !.separation_radius = (s.boid_size * p.separation_radius) \div 2]
      [] f = 4 -> [s EXCEPT !.cohesion_radius = s.boid_size * p.cohesion_radius]
      [] f = 5 -> [s EXCEPT !.alignment_radius = s.boid_size * p.alignment_radius]
      [] f = 6 -> [s EXCEPT !.max_speed = p.max_speed]
      [] OTHER -> [s EXCEPT !.max_force = p.max_force]

\* Simulation._update_args as the control unit runs it: in three steps, the
\* population target (num_boids), the geometry (boid_size and the radii) and
\* the limits; the run unit may run between them
SimSteps == 3

SimUpdateStep(s, p, g) ==
    CASE g = 1 -> SimUpdateField(s, p, 1)
      [] g = 2 -> SimUpdateField(SimUpdateField(SimUpdateField(SimUpdateField(s, p, 2), p, 3), p, 4), p, 5)
      [] OTHER -> SimUpdateField(SimUpdateField(s, p, 6), p, 7)

\* The Boid(...) call of _init_boids and _add_boids: the template is the
\* Simulation's current fields
SpawnBoid(s, id, spawn) ==
    NewBoid(id, spawn[1], spawn[2], s.boid_size, s.separation_radius,
            s.cohesion_radius, s.alignment_radius, s.max_speed, s.max_force)

\* list.remove(x): the list without its element at index k
RemoveAt(s, k) == SubSeq(s, 1, k - 1) \o SubSeq(s, k + 1, Len(s))

\* _get_boid_groups, first loop: the close set of each boid, kept when it has
\* at least two members (sets of Boid identities, in list order)
CloseSet(s, bs, b) ==
    {b.id} \cup { o.id : o \in { x \in Range(bs) :
                     /\ x.id # b.id
                     /\ distance_to(b.position, x.position)
                          < s.boid_size + s.cohesion_radius * 2 } }

RECURSIVE InitialGroups(_, _, _)
InitialGroups(s, bs, k) ==
    IF k > Len(bs) THEN <<>>
    ELSE (IF Cardinality(CloseSet(s, bs, bs[k])) >= 2
          THEN <<CloseSet(s, bs, bs[k])>> ELSE <<>>) \o InitialGroups(s, bs, k + 1)

\* An inner while that merges nothing
AbsorbNothing(current_group, rest, k) == <<current_group, rest>>

\* _get_boid_groups, inner while: one pass over the remaining groups from
\* index k; a group that meets current_group is popped and united into it
RECURSIVE Absorb(_, _, _)
Absorb(current_group, rest, k) ==
    IF k > Len(rest) THEN <<current_group, rest>>
    ELSE IF current_group \cap rest[k] # {}
         THEN Absorb(current_group \cup rest[k], RemoveAt(rest, k), k)
         ELSE Absorb(current_group, rest, k + 1)

\* _get_boid_groups, outer while
RECURSIVE MergeGroups(_)
MergeGroups(initial_groups) ==
    IF initial_groups = <<>> THEN <<>>
    ELSE LET r == Absorb(Head(initial_groups), Tail(initial_groups), 1)
         IN <<r[1]>> \o MergeGroups(r[2])

_get_boid_groups(s, bs) == MergeGroups(InitialGroups(s, bs, 1))

\* _get_group_color: a colour fixed by the md5 digest of the group id (group
\* ids are 0-based); never the default colour
_get_group_color(group_id) == <<"md5", group_id>>

\* A colouring that leaves the agents outside every group as they were
ColoursNeverReset(s, bs) ==
    LET merged_groups == _get_boid_groups(s, bs)
        Last(b) == LET in == { g \in DOMAIN merged_groups : b.id \in merged_groups[g] }
                   IN IF in = {} THEN 0
                      ELSE CHOOSE g \in in : \A h \in in : h <= g
    IN [k \in DOMAIN bs |->
          IF Last(bs[k]) = 0
          THEN bs[k]
          ELSE [bs[k] EXCEPT !.group = Last(bs[k]) - 1,
                             !.color = _get_group_color(Last(bs[k]) - 1)]]

\* _update_boid_colors: groups are coloured in list order, so a boid in several
\* groups keeps the last one; boids in no group are reset
_update_boid_colors(s, bs) ==
    LET merged_groups == _get_boid_groups(s, bs)
        Last(b) == LET in == { g \in DOMAIN merged_groups : b.id \in merged_groups[g] }
                   IN IF in = {} THEN 0
                      ELSE CHOOSE g \in in : \A h \in in : h <= g
    IN [k \in DOMAIN bs |->
          IF Last(bs[k]) = 0
          THEN [bs[k] EXCEPT !.group = NoGroup, !.color = DEFAULT_BOID_COLOR]
          ELSE [bs[k] EXCEPT !.group = Last(bs[k]) - 1,
                             !.color = _get_group_color(Last(bs[k]) - 1)]]

-----------------------------------------------------------------------------
(* Initial state: BoidSimulationController.__init__ *)

\* No Simulation object exists yet; the fields hold a placeholder
NoSimulation ==
    [ num_boids |-> 0, boid_size |-> 0, separation_radius |-> 0,
      cohesion_radius |-> 0, alignment_radius |-> 0, max_speed |-> 0,
      max_force |-> 0, num_frames |-> 0 ]

\* The control unit between two button presses (p: the sim_params of a running
\* _update_params, k and bid: its list iterator and the boid it fetched,
\* f: the step of _update_args about to run)
NoParams == [ num_boids |-> 0, boid_size |-> 0, separation_radius |-> 0, cohesion_radius |-> 0, alignment_radius |-> 0, max_speed |-> 0, max_force |-> 0 ]

Idle == [pc |-> "idle", p |-> NoParams, k |-> 0, f |-> 0, bid |-> 0]

\* Nothing polled yet in this iteration of the loop
Unpolled == [stop |-> "unpolled", pause |-> "unpolled", update |-> "unpolled"]

Init ==
    /\ simulation = FALSE
    /\ simulation_thread = 0
    /\ alive = {}
    /\ pause_event = FALSE
    /\ stop_event = FALSE
    /\ update_event = FALSE
    /\ ctl = Idle
    /\ starts = 0
    /\ threads = 0
    /\ target = 0
    /\ ops = 0
    /\ sim = NoSimulation
    /\ boids = <<>>
    /\ next_id = 1
    /\ pc = "none"
    /\ running = FALSE
    /\ frame = 0
    /\ i = 0
    /\ todo = 0
    /\ ticks = 0
    /\ flocked = {}
    /\ integrated = {}
    /\ used = {}
    /\ seen = Unpolled

-----------------------------------------------------------------------------
(* The run unit: _simulation_runner = init_sim(); run() *)

\* The thread of the latest start is the one whose frame the run locals hold
RunUnitAlive == threads \in alive

\* The run unit ends: run() returned or an exception left it; its frame (the
\* locals of run) is gone
ThreadEnds ==
    /\ alive' = alive \ {threads}
    /\ pc' = "dead"
    /\ running' = FALSE
    /\ frame' = 0
    /\ i' = 0
    /\ todo' = 0
    /\ ticks' = 0
    /\ flocked' = {}
    /\ integrated' = {}
    /\ used' = {}
    /\ seen' = Unpolled

\* An uncaught ValueError ends the thread where it is; nothing is cleaned up
Raise ==
    /\ ThreadEnds
    /\ UNCHANGED <<ctlVars, events, sim, boids, next_id>>

\* init_sim, _init_boids: self.boids = []; range(self.num_boids) is fixed here
InitSim ==
    /\ RunUnitAlive /\ pc = "init_sim"
    /\ boids' = <<>>
    /\ todo' = sim.num_boids
    /\ pc' = "init_boids"
    /\ UNCHANGED <<ctlVars, alive, events, sim, next_id, running, frame, i, ticks,
                   history>>

\* _init_boids: one pass of the for loop
InitBoid ==
    /\ RunUnitAlive /\ pc = "init_boids" /\ todo > 0
    /\ \E spawn \in Spawns(next_id) : boids' = Append(boids, SpawnBoid(sim, next_id, spawn))
    /\ next_id' = next_id + 1
    /\ todo' = todo - 1
    /\ UNCHANGED <<ctlVars, alive, events, sim, pc, running, frame, i, ticks,
                   history>>

InitBoidsDone ==
    /\ RunUnitAlive /\ pc = "init_boids" /\ todo = 0
    /\ pc' = "pre"
    /\ UNCHANGED <<ctlVars, alive, events, sim, boids, next_id, running, frame, i,
                   todo, ticks, history>>

\* _pre_simulation_interaction: a QUIT event; run() returns at once
PreQuit ==
    /\ RunUnitAlive /\ pc = "pre"
    /\ ThreadEnds
    /\ UNCHANGED <<ctlVars, events, sim, boids, next_id>>

\* _pre_simulation_interaction: the 4 s have passed; run() sets frame = 0,
\* running = True and enters the loop
PreTimeout ==
    /\ RunUnitAlive /\ pc = "pre"
    /\ pc' = "loop"
    /\ running' = TRUE
    /\ frame' = 0
    /\ UNCHANGED <<ctlVars, alive, events, sim, boids, next_id, i, todo, ticks,
                   history>>

\* while running (line 411)
LoopContinues == running

\* A loop that never looks at the stop event
StopNotPolled(r) == r

\* if self.stop_event.is_set(): running = False (r: running so far)
StopPolled(r) == IF stop_event THEN FALSE ELSE r

\* while running: a new iteration begins and drains the pygame events (quit
\* tells whether a QUIT event is among them: running = False), then the stop
\* event is polled.  Beyond MaxTicks only an iteration that finds the stop
\* event set may begin.
LoopEnter ==
    /\ RunUnitAlive /\ pc = "loop" /\ LoopContinues
    /\ (ticks < MaxTicks \/ (stop_event /\ ticks <= MaxTicks))
    /\ \E quit \in BOOLEAN : running' = StopPolled(~quit)
    /\ seen' = [seen EXCEPT !.stop = IF stop_event THEN "set" ELSE "clear"]
    /\ ticks' = ticks + 1
    /\ pc' = "upd_poll"
    /\ UNCHANGED <<ctlVars, alive, events, sim, boids, next_id, frame, i, todo,
                   flocked, integrated, used>>

\* if self.update_event.is_set():
UpdatePoll ==
    /\ RunUnitAlive /\ pc = "upd_poll"
    /\ pc' = (IF update_event THEN "cmp_gt" ELSE "colors")
    /\ seen' = [seen EXCEPT !.update = IF update_event THEN "set" ELSE "clear"]
    /\ UNCHANGED <<ctlVars, alive, events, sim, boids, next_id, running, frame, i,
                   todo, ticks, flocked, integrated, used>>

\* if self.num_boids > len(self.boids):
CompareGrow ==
    /\ RunUnitAlive /\ pc = "cmp_gt"
    /\ pc' = (IF sim.num_boids > Len(boids) THEN "add_arg" ELSE "cmp_lt")
    /\ UNCHANGED <<ctlVars, alive, events, sim, boids, next_id, running, frame, i,
                   todo, ticks, history>>

\* self._add_boids(self.num_boids - len(self.boids)): num_boids is read again;
\* range() of a negative number is empty
AddArg ==
    /\ RunUnitAlive /\ pc = "add_arg"
    /\ todo' = (IF sim.num_boids > Len(boids) THEN sim.num_boids - Len(boids) ELSE 0)
    /\ pc' = "add"
    /\ UNCHANGED <<ctlVars, alive, events, sim, boids, next_id, running, frame, i,
                   ticks, history>>

\* _add_boids: one pass of the for loop
AddBoid ==
    /\ RunUnitAlive /\ pc = "add" /\ todo > 0
    /\ \E spawn \in Spawns(next_id) : boids' = Append(boids, SpawnBoid(sim, next_id, spawn))
    /\ next_id' = next_id + 1
    /\ todo' = todo - 1
    /\ UNCHANGED <<ctlVars, alive, events, sim, pc, running, frame, i, ticks,
                   history>>

\* elif self.num_boids < len(self.boids):
CompareShrink ==
    /\ RunUnitAlive /\ pc = "cmp_lt"
    /\ pc' = (IF sim.num_boids < Len(boids) THEN "remove_arg" ELSE "upd_clear")
    /\ UNCHANGED <<ctlVars, alive, events, sim, boids, next_id, running, frame, i,
                   todo, ticks, history>>

\* self._remove_random_boids(len(self.boids) - self.num_boids)
RemoveArg ==
    /\ RunUnitAlive /\ pc = "remove_arg"
    /\ todo' = (IF Len(boids) > sim.num_boids THEN Len(boids) - sim.num_boids ELSE 0)
    /\ pc' = "remove"
    /\ UNCHANGED <<ctlVars, alive, events, sim, boids, next_id, running, frame, i,
                   ticks, history>>

\* _remove_random_boids: one pass of the for loop; random.choice, list.remove
RemoveBoid ==
    /\ RunUnitAlive /\ pc = "remove" /\ todo > 0
    /\ IF boids # <<>>
       THEN \E k \in DOMAIN boids : boids' = RemoveAt(boids, k)
       ELSE boids' = boids
    /\ todo' = todo - 1
    /\ UNCHANGED <<ctlVars, alive, events, sim, next_id, pc, running, frame, i,
                   ticks, history>>

\* the last line of _add_boids and of _remove_random_boids:
\* self.num_boids = len(self.boids)
ResizeDone ==
    /\ RunUnitAlive /\ pc \in {"add", "remove"} /\ todo = 0
    /\ sim' = [sim EXCEPT !.num_boids = Len(boids)]
    /\ pc' = "upd_clear"
    /\ UNCHANGED <<ctlVars, alive, events, boids, next_id, running, frame, i, todo,
                   ticks, history>>

\* self.update_event.clear()
UpdateClear ==
    /\ RunUnitAlive /\ pc = "upd_clear"
    /\ update_event' = FALSE
    /\ pc' = "colors"
    /\ seen' = [seen EXCEPT !.update = "applied"]
    /\ UNCHANGED <<ctlVars, alive, pause_event, stop_event, sim, boids, next_id,
                   running, frame, i, todo, ticks, flocked, integrated, used>>

\* self._update_boid_colors() (between the camera and cube drawing calls)
UpdateBoidColors ==
    /\ RunUnitAlive /\ pc = "colors"
    /\ boids' = _update_boid_colors(sim, boids)
    /\ pc' = "pause_poll"
    /\ UNCHANGED <<ctlVars, alive, events, sim, next_id, running, frame, i, todo,
                   ticks, history>>

\* A loop whose physics pass ignores the pause event
PhysicsNeverSkipped == FALSE

\* if not self.pause_event.is_set(): (line 431)
PhysicsSkipped == pause_event

\* if not self.pause_event.is_set(): for boid in self.boids:
PausePoll ==
    /\ RunUnitAlive /\ pc = "pause_poll"
    /\ IF ~PhysicsSkipped /\ boids # <<>>
       THEN pc' = "flock" /\ i' = 1
       ELSE pc' = "render" /\ i' = i
    /\ seen' = [seen EXCEPT !.pause = IF pause_event THEN "set" ELSE "clear"]
    /\ UNCHANGED <<ctlVars, alive, events, sim, boids, next_id, running, frame,
                   todo, ticks, flocked, integrated, used>>

\* The parameters of a boid, in the order of _update_args
BoidParams(b) ==
    <<b.boid_size, b.separation_radius, b.cohesion_radius, b.alignment_radius,
      b.max_speed, b.max_force>>

\* boid.flock(self.boids)
Flock ==
    /\ RunUnitAlive /\ pc = "flock"
    /\ IF FlockRaises(boids[i], boids)
       THEN Raise
       ELSE /\ \E impulse \in Impulses :
                 boids' = [boids EXCEPT ![i] = flock(boids[i], boids, impulse)]
            /\ flocked' = flocked \cup {boids[i].id}
            /\ used' = used \cup {BoidParams(boids[i])}
            /\ pc' = "update"
            /\ UNCHANGED <<ctlVars, alive, events, sim, next_id, running, frame, i,
                           todo, ticks, integrated, seen>>

\* boid.update(), then the next boid of the for loop.  When scale_to_length
\* raises, velocity += acceleration has been done and the thread ends there.
Update ==
    /\ RunUnitAlive /\ pc = "update"
    /\ IF UpdateRaises(boids[i])
       THEN /\ boids' = [boids EXCEPT ![i].velocity = @ + boids[i].acceleration]
            /\ ThreadEnds
            /\ UNCHANGED <<ctlVars, events, sim, next_id>>
       ELSE /\ boids' = [boids EXCEPT ![i] = update(boids[i])]
            /\ integrated' = integrated \cup {boids[i].id}
            /\ used' = used \cup {<<boids[i].max_speed>>}
            /\ IF i < Len(boids)
               THEN pc' = "flock" /\ i' = i + 1
               ELSE pc' = "render" /\ i' = i
            /\ UNCHANGED <<ctlVars, alive, events, sim, next_id, running, frame,
                           todo, ticks, flocked, seen>>

\* for boid in self.boids: boid.render(); flip; clock.tick; then
\* if self.num_frames is not None: the frame is saved, frame += 1,
\*     if self.pause_event.is_set(): self.num_frames += 1
\*     if frame >= self.num_frames: running = False
Render ==
    /\ RunUnitAlive /\ pc = "render"
    /\ IF sim.num_frames # 0
       THEN LET num_frames == IF pause_event THEN sim.num_frames + 1
                                             ELSE sim.num_frames
            IN /\ frame' = frame + 1
               /\ sim' = [sim EXCEPT !.num_frames = num_frames]
               /\ running' = (IF frame + 1 >= num_frames THEN FALSE ELSE running)
       ELSE UNCHANGED <<frame, sim, running>>
    /\ pc' = "loop"
    /\ flocked' = {}
    /\ integrated' = {}
    /\ used' = {}
    /\ seen' = [Unpolled EXCEPT !.stop = seen.stop]
    /\ UNCHANGED <<ctlVars, alive, events, boids, next_id, i, todo, ticks>>

\* the loop is left: _save, pygame.quit, the three events are cleared, run()
\* returns and the thread ends
LoopExit ==
    /\ RunUnitAlive /\ pc = "loop" /\ ~LoopContinues
    /\ stop_event' = FALSE
    /\ pause_event' = FALSE
    /\ update_event' = FALSE
    /\ ThreadEnds
    /\ UNCHANGED <<ctlVars, sim, boids, next_id>>

RunNext ==
    \/ InitSim \/ InitBoid \/ InitBoidsDone \/ PreQuit \/ PreTimeout
    \/ LoopEnter \/ UpdatePoll \/ CompareGrow \/ AddArg \/ AddBoid
    \/ CompareShrink \/ RemoveArg \/ RemoveBoid \/ ResizeDone \/ UpdateClear
    \/ UpdateBoidColors \/ PausePoll \/ Flock \/ Update \/ Render \/ LoopExit

-----------------------------------------------------------------------------
(* The control unit: the button handlers of BoidSimulationController, run one
   at a time by the GUI thread *)

\* A start() that never finds a live thread
ThreadNeverFoundAlive == FALSE

\* _start_simulation: if self.simulation_thread and self.simulation_thread.is_alive()
ThreadIsAlive == simulation_thread # 0 /\ simulation_thread \in alive

\* _start_simulation.  Nothing runs beside it once the guard has passed (the
\* old thread, if any, is dead), so the rest of the handler is one step: the
\* events are cleared, the Simulation is built from the sliders and the thread
\* is started.
Start ==
    /\ ctl.pc = "idle" /\ ops < MaxOps
    /\ ops' = ops + 1
    /\ starts' = starts + 1
    /\ IF ThreadIsAlive
       THEN UNCHANGED <<simulation, simulation_thread, threads, target, alive, events, ctl,
                        sim, boids, next_id, runLocals>>
       ELSE \E p \in ParamSets, num_frames \in FrameBudgets :
               /\ stop_event' = FALSE
               /\ pause_event' = FALSE
               /\ update_event' = FALSE
               /\ sim' = NewSimulation(p, num_frames)
               /\ target' = p.num_boids
               /\ boids' = <<>>
               /\ next_id' = 1
               /\ simulation' = TRUE
               /\ threads' = threads + 1
               /\ simulation_thread' = threads + 1
               /\ alive' = alive \cup {threads + 1}
               /\ pc' = "init_sim"
               /\ running' = FALSE
               /\ frame' = 0
               /\ i' = 0
               /\ todo' = 0
               /\ ticks' = 0
               /\ flocked' = {}
               /\ integrated' = {}
               /\ used' = {}
               /\ seen' = Unpolled
               /\ ctl' = ctl

\* _pause_simulation
Pause ==
    /\ ctl.pc = "idle" /\ ops < MaxOps
    /\ ops' = ops + 1
    /\ pause_event' = TRUE
    /\ UNCHANGED <<simulation, simulation_thread, ctl, starts, threads, target, alive, stop_event,
                   update_event, sim, boids, next_id, runLocals>>

\* _resume_simulation
Resume ==
    /\ ctl.pc = "idle" /\ ops < MaxOps
    /\ ops' = ops + 1
    /\ pause_event' = FALSE
    /\ UNCHANGED <<simulation, simulation_thread, ctl, starts, threads, target, alive, stop_event,
                   update_event, sim, boids, next_id, runLocals>>

\* The whole of Simulation._update_args and of Boid._update_args
SimUpdateArgs(s, p) == SimUpdateStep(SimUpdateStep(SimUpdateStep(s, p, 1), p, 2), p, 3)

BoidUpdateArgs(b, p) == BoidUpdateStep(BoidUpdateStep(b, p, 1), p, 2)

\* _update_params: self.update_event.set(), then the sliders are read into
\* sim_params.  With no Simulation object the next line raises AttributeError
\* and the handler is over.  With no run unit alive nothing runs beside the
\* handler, and the rest of it is part of this step; otherwise the run unit may
\* run between its steps (UpdateSimField, UpdateIter, UpdateBoidField).
UpdateParams ==
    /\ ctl.pc = "idle" /\ ops < MaxOps
    /\ ops' = ops + 1
    /\ update_event' = TRUE
    /\ \E p \in ParamSets :
          IF simulation /\ RunUnitAlive
          THEN /\ ctl' = [pc |-> "upd_sim", p |-> p, k |-> 0, f |-> 1, bid |-> 0]
               /\ target' = p.num_boids
               /\ UNCHANGED <<sim, boids>>
          ELSE IF simulation
          THEN /\ sim' = SimUpdateArgs(sim, p)
               /\ boids' = [j \in DOMAIN boids |-> BoidUpdateArgs(boids[j], p)]
               /\ target' = p.num_boids
               /\ ctl' = ctl
          ELSE /\ ctl' = [ctl EXCEPT !.pc = "raised"]
               /\ UNCHANGED <<sim, boids, target>>
    /\ UNCHANGED <<simulation, simulation_thread, starts, threads, alive,
                   pause_event, stop_event, next_id, runLocals>>

\* self.simulation._update_args with self.simulation = None: AttributeError
\* leaves the handler; Tk reports it and the main loop goes on
HandlerRaised ==
    /\ ctl.pc = "raised"
    /\ ctl' = Idle
    /\ UNCHANGED <<simulation, simulation_thread, starts, threads, target, ops, alive,
                   events, sim, boids, next_id, runLocals>>

\* self.simulation._update_args(*sim_params): one step of it
UpdateSimField ==
    /\ ctl.pc = "upd_sim"
    /\ sim' = SimUpdateStep(sim, ctl.p, ctl.f)
    /\ ctl' = IF ctl.f < SimSteps
              THEN [ctl EXCEPT !.f = @ + 1]
              ELSE [ctl EXCEPT !.pc = "upd_iter", !.k = 1, !.f = 0]
    /\ UNCHANGED <<simulation, simulation_thread, starts, threads, target, ops, alive, events, boids,
                   next_id, runLocals>>

\* for boid in self.simulation.boids: the list iterator fetches the next element
UpdateIter ==
    /\ ctl.pc = "upd_iter"
    /\ ctl' = IF ctl.k > Len(boids)
              THEN Idle
              ELSE [ctl EXCEPT !.pc = "upd_boid", !.bid = boids[ctl.k].id,
                               !.k = @ + 1, !.f = 1]
    /\ UNCHANGED <<simulation, simulation_thread, starts, threads, target, ops, alive, events, sim,
                   boids, next_id, runLocals>>

\* boid._update_args(*sim_params[1:]): one step of it on the fetched object
\* (which may have left the list meanwhile)
UpdateBoidField ==
    /\ ctl.pc = "upd_boid"
    /\ boids' = [j \in DOMAIN boids |->
                    IF boids[j].id = ctl.bid
                    THEN BoidUpdateStep(boids[j], ctl.p, ctl.f) ELSE boids[j]]
    /\ ctl' = IF ctl.f < BoidSteps
              THEN [ctl EXCEPT !.f = @ + 1]
              ELSE [ctl EXCEPT !.pc = "upd_iter", !.f = 0, !.bid = 0]
    /\ UNCHANGED <<simulation, simulation_thread, starts, threads, target, ops, alive, events, sim,
                   next_id, runLocals>>

\* _stop_simulation: self.stop_event.set()
StopSet ==
    /\ ctl.pc = "idle" /\ ops < MaxOps
    /\ ops' = ops + 1
    /\ stop_event' = TRUE
    /\ ctl' = [ctl EXCEPT !.pc = "stop_clear"]
    /\ UNCHANGED <<simulation, simulation_thread, starts, threads, target, alive, pause_event,
                   update_event, sim, boids, next_id, runLocals>>

\* _stop_simulation: self.pause_event.clear()
StopClearPause ==
    /\ ctl.pc = "stop_clear"
    /\ pause_event' = FALSE
    /\ ctl' = [ctl EXCEPT !.pc = "stop_join"]
    /\ UNCHANGED <<simulation, simulation_thread, starts, threads, target, ops, alive, stop_event,
                   update_event, sim, boids, next_id, runLocals>>

\* A join that returns without waiting for the thread to end
JoinWithoutWaiting == TRUE

\* if self.simulation_thread: self.simulation_thread.join() returns
JoinReturns == simulation_thread = 0 \/ simulation_thread \notin alive

\* _stop_simulation: the join, then self.simulation = None and
\* self.simulation_thread = None.  The Simulation object and its boids are
\* garbage from here on unless a live run unit still holds them.
StopJoin ==
    /\ ctl.pc = "stop_join"
    /\ JoinReturns
    /\ simulation' = FALSE
    /\ simulation_thread' = 0
    /\ ctl' = Idle
    /\ IF RunUnitAlive
       THEN UNCHANGED <<sim, boids, next_id>>
       ELSE sim' = NoSimulation /\ boids' = <<>> /\ next_id' = 1
    /\ UNCHANGED <<starts, threads, target, ops, alive, events, runLocals>>

CtlNext ==
    \/ Start \/ Pause \/ Resume \/ UpdateParams \/ HandlerRaised \/ UpdateSimField
    \/ UpdateIter \/ UpdateBoidField \/ StopSet \/ StopClearPause \/ StopJoin

Next == RunNext \/ CtlNext

Spec == Init /\ [][Next]_vars

\* The steps by which a handler of the control unit goes on once entered
CtlContinues ==
    \/ HandlerRaised \/ UpdateSimField \/ UpdateIter \/ UpdateBoidField
    \/ StopClearPause \/ StopJoin

\* Both threads are scheduled fairly: the run unit takes its next step, and a
\* handler that has begun takes its next step (no button press is forced)
FairSpec == Spec /\ WF_vars(RunNext) /\ WF_vars(CtlContinues)

-----------------------------------------------------------------------------
(* The colouring step on its own: a run loop at its _update_boid_colors call
   with four agents A, B, C, D (ids 1..4) on a line, in any list order; the
   agents of any subset still carry group 1 and its colour from the tick
   before *)

\* Distances between neighbours on the line (the leftmost agent is at -18)
Gaps == {3, 5, 9, 14}

\* The Simulation as built by start() from a slider set, and as left by a
\* completed update() (its radii scaled by boid_size)
ClusterSims ==
    { NewSimulation(p, 0) : p \in ParamSets }
      \cup { SimUpdateArgs(NewSimulation(p, 0), p) : p \in ParamSets }

\* The list orders of four agents
Orders == { f \in [1..4 -> 1..4] : \A a, b \in 1..4 : f[a] = f[b] => a = b }

InitCluster ==
    /\ simulation = TRUE
    /\ simulation_thread = 1
    /\ alive = {1}
    /\ pause_event = FALSE
    /\ stop_event = FALSE
    /\ update_event = FALSE
    /\ ctl = Idle
    /\ starts = 1
    /\ threads = 1
    /\ target = 4
    /\ ops = 1
    /\ sim \in { [s EXCEPT !.num_boids = 4] : s \in ClusterSims }
    /\ \E d1 \in Gaps, d2 \in Gaps, d3 \in Gaps, f \in Orders, grouped \in SUBSET (1..4) :
          LET x == <<-18, -18 + d1, -18 + d1 + d2, -18 + d1 + d2 + d3>>
          IN boids = [k \in 1..4 |->
                        IF f[k] \in grouped
                        THEN [SpawnBoid(sim, f[k], <<x[f[k]], 1>>)
                                EXCEPT !.group = 1, !.color = _get_group_color(1)]
                        ELSE SpawnBoid(sim, f[k], <<x[f[k]], 1>>)]
    /\ next_id = 5
    /\ pc = "colors"
    /\ running = TRUE
    /\ frame = 0
    /\ i = 0
    /\ todo = 0
    /\ ticks = 1
    /\ flocked = {}
    /\ integrated = {}
    /\ used = {}
    /\ seen = [Unpolled EXCEPT !.stop = "clear", !.update = "clear"]

NextCluster == UpdateBoidColors

SpecCluster == InitCluster /\ [][NextCluster]_vars

-----------------------------------------------------------------------------
(* The specification's statements about the program *)

\* C1 (ordering barrier): in a tick whose physics pass runs, once any agent
\* has integrated (Boid.update) every agent of the collection has already had
\* its forces computed (Boid.flock) in that tick.
OrderingBarrier ==
    integrated # {} => \A j \in DOMAIN boids : boids[j].id \in flocked

\* C2 (atomic parameter update): within one tick's physics pass every use of
\* an agent's parameters (flock reads size, radii, max_speed and max_force,
\* update reads max_speed) sees one and the same whole parameter set, the one
\* an agent gets from a single snapshot: no mix across agents, no agent with
\* a half-updated set.
AtomicParameterUpdate ==
    \E p \in ParamSets :
        LET whole == BoidParams(SpawnBoid(NewSimulation(p, 0), 0, <<0, 1>>))
        IN \A t \in used : IF Len(t) = 1 THEN t[1] = whole[5] ELSE t = whole

\* C3 (population invariant): whenever a tick of the run loop completes, the
\* number of agents in the collection equals the flock's target population
\* (len(boids) == num_boids).
PopulationInvariant ==
    [][(pc = "render" /\ pc' = "loop") => Len(boids') = sim'.num_boids]_vars

\* C4 (no lost update): the run loop never clears the pending-update flag
\* while the control unit has raised it but has not yet stored the snapshot
\* of that update in the Simulation (an update cleared that early is never
\* adopted).
NoLostUpdate ==
    [][(pc = "upd_clear" /\ pc' = "colors") => ctl.pc # "upd_sim"]_vars

\* C5 (stop blocks until loop exit): stop() returns (its join is over and the
\* handler is back to idle) only when no run unit is alive; and from its
\* return until the next start() nothing changes an agent, the Simulation,
\* the frame counter or the run unit's position, and a signal changes only
\* in a step of the control unit.
StopBlocksUntilLoopExit ==
    [][ /\ (ctl.pc = "stop_join" /\ ctl'.pc = "idle") => alive = {}
        /\ (simulation_thread = 0 /\ simulation_thread' = 0)
              => /\ boids' = boids /\ sim' = sim /\ next_id' = next_id
                 /\ frame' = frame /\ pc' = pc /\ alive' = alive
                 /\ (events' # events => (ops' # ops \/ ctl' # ctl)) ]_vars

\* a stop() pressed on a live run unit has returned: start, stop, and the
\* stop signal was cleared by the loop's exit before the join ended
StopReturnedAfterLoopExit ==
    /\ ops = 2 /\ threads = 1 /\ simulation_thread = 0 /\ ~simulation
    /\ ctl.pc = "idle" /\ ~stop_event /\ alive = {}

\* C6 (stop never deadlocks): under fair scheduling every stop(), whatever
\* the state it is pressed in (no run unit, initialisation, pre-simulation
\* phase, running or paused loop, ended run unit), eventually returns, and at
\* its return no run unit is alive and the controller holds neither a
\* Simulation nor a thread.
StopNeverDeadlocks ==
    /\ (ctl.pc = "stop_clear") ~> (ctl.pc = "idle")
    /\ [][(ctl.pc = "stop_join" /\ ctl'.pc = "idle")
             => (alive' = {} /\ ~simulation' /\ simulation_thread' = 0)]_vars

\* stop() has raised the stop signal on a live run loop that is paused
StopPressedWhilePaused ==
    /\ ctl.pc = "stop_clear" /\ pause_event /\ stop_event /\ RunUnitAlive
    /\ pc \in {"loop", "upd_poll", "colors", "pause_poll", "render"}

\* C7 (single run loop): at most one run unit is alive at any time, and a
\* start() pressed while the controller's thread is alive creates no thread,
\* builds no Simulation, and leaves the three signals, the agents and the
\* run unit as they are.
SingleRunLoop ==
    /\ [](Cardinality(alive) <= 1)
    /\ [][(starts' # starts /\ simulation_thread \in alive)
            => UNCHANGED <<simulation, simulation_thread, threads, target, alive, events,
                           sim, boids, next_id, runLocals>>]_vars

\* start() has been pressed a second time on the live run unit of the first
StartPressedWhileAlive ==
    starts = 2 /\ threads = 1 /\ simulation_thread = 1 /\ alive = {1}

ClusteringOfChain ==
    LET at(id) == CHOOSE b \in Range(boids) : b.id = id
        close(a, b) == distance_to(at(a).position, at(b).position)
                         < sim.boid_size + sim.cohesion_radius * 2
        merged_groups == _get_boid_groups(sim, boids)
    IN (/\ Len(boids) = 4
        /\ close(1, 2) /\ close(2, 3) /\ ~close(1, 3)
        /\ ~close(4, 1) /\ ~close(4, 2) /\ ~close(4, 3))
       => /\ merged_groups = << {1, 2, 3} >>
          /\ pc = "pause_poll"
                => /\ at(1).group # NoGroup
                   /\ at(2).group = at(1).group /\ at(3).group = at(1).group
                   /\ at(1).color # DEFAULT_BOID_COLOR
                   /\ at(2).color = at(1).color /\ at(3).color = at(1).color
                   /\ at(4).group = NoGroup /\ at(4).color = DEFAULT_BOID_COLOR

\* the colouring step has run on a chain: A-B and B-C close, A-C not, D apart,
\* with B neither first nor last of the list
ChainColoured ==
    /\ pc = "pause_poll" /\ Len(boids) = 4
    /\ boids[1].id = 1 /\ boids[2].id = 3 /\ boids[3].id = 4 /\ boids[4].id = 2
    /\ boids[1].position + 5 = boids[4].position
    /\ boids[4].position + 5 = boids[2].position
    /\ boids[2].position + 9 = boids[3].position
    /\ sim.boid_size + sim.cohesion_radius * 2 = 8
    /\ boids[1].group = 0

\* C10 (resize contract): when the run loop has processed a pending update
\* (it clears the flag), the number of agents equals the target T of the
\* latest update; and the resize block changes the collection only by
\* appending new agents (when growing) or by removing existing ones (when
\* shrinking), the others keeping their place.  In particular growth followed
\* by a request for the original size ends at the original count.
ResizeContract ==
    [][LET ids(bs) == [k \in DOMAIN bs |-> bs[k].id]
       IN /\ (pc = "upd_clear" /\ pc' = "colors") => Len(boids) = target
          /\ (pc = "add" /\ pc' \in {"add", "upd_clear"})
               => \/ ids(boids') = ids(boids)
                  \/ \E new \in 1..next_id :
                        /\ new \notin Range(ids(boids))
                        /\ ids(boids') = Append(ids(boids), new)
          /\ (pc = "remove" /\ pc' \in {"remove", "upd_clear"})
               => \/ ids(boids') = ids(boids)
                  \/ \E k \in DOMAIN boids : ids(boids') = RemoveAt(ids(boids), k)
          /\ (pc \in {"cmp_gt", "cmp_lt", "add_arg", "remove_arg", "upd_clear"}
                /\ pc' # "dead" /\ pc' # "init_sim")
               => ids(boids') = ids(boids) ]_vars

\* C11 (invalid control transitions are no-ops): no handler of the control
\* unit ends by raising an error, whatever the state it is pressed in; and a
\* start() that creates a run unit leaves the three signals clear, an empty
\* collection and an idle control unit, whatever was pressed before it.
InvalidTransitionsAreNoOps ==
    /\ [](ctl.pc # "raised")
    /\ [][threads' # threads
            => /\ ~pause_event' /\ ~stop_event' /\ ~update_event'
               /\ boids' = <<>> /\ next_id' = 1 /\ pc' = "init_sim"
               /\ ctl'.pc = "idle" /\ simulation'
               /\ simulation_thread' \in alive']_vars

\* C12 (frame budget under pause): with recording on, a tick whose pause poll
\* let the physics pass run leaves the frame budget as it was, and a tick
\* whose pause poll skipped the physics pass extends the budget by exactly
\* one: the budget follows the one reading of the pause signal that the tick
\* acted on.
FrameBudgetUnderPause ==
    [][(pc = "render" /\ pc' = "loop" /\ sim.num_frames # 0)
        => /\ seen.pause = "clear" => sim'.num_frames = sim.num_frames
           /\ seen.pause = "set" => sim'.num_frames = sim.num_frames + 1]_vars

\* C13 (speed invariant): every call of Boid.update, whatever force has been
\* accumulated, returns and leaves the agent with a velocity of magnitude
\* max_speed and a zero accumulator.
SpeedInvariant ==
    [][(pc = "update" /\ pc' # "update")
        => /\ pc' # "dead"
           /\ Abs(boids'[i].velocity) = boids[i].max_speed
           /\ boids'[i].acceleration = 0]_vars

\* C14 (zero-neighbour behaviour): for an agent with no other agent strictly
\* within its separation, alignment or cohesion radius, _separate, _align and
\* _cohesion each return the zero vector without raising, and its flock adds
\* to the accumulator either the containment force alone or the random
\* impulse alone.
ZeroNeighbourBehaviour ==
    /\ [](\A j \in DOMAIN boids :
            (\A k \in DOMAIN boids :
                boids[k].id # boids[j].id
                  => LET d == distance_to(boids[j].position, boids[k].position)
                     IN /\ d >= boids[j].separation_radius
                        /\ d >= boids[j].alignment_radius
                        /\ d >= boids[j].cohesion_radius)
            => /\ _separate(boids[j], boids) = [raised |-> FALSE, force |-> 0]
               /\ _align(boids[j], boids) = [raised |-> FALSE, force |-> 0]
               /\ _cohesion(boids[j], boids) = [raised |-> FALSE, force |-> 0])
    /\ [][(/\ pc = "flock" /\ pc' # "flock"
            /\ \A k \in DOMAIN boids :
                  boids[k].id # boids[i].id
                    => LET d == distance_to(boids[i].position, boids[k].position)
                       IN /\ d >= boids[i].separation_radius
                          /\ d >= boids[i].alignment_radius
                          /\ d >= boids[i].cohesion_radius)
            => /\ pc' = "update"
               /\ boids'[i].acceleration - boids[i].acceleration
                     \in { _stay_in_cube(boids[i]), 4 * boids[i].max_force,
                           -4 * boids[i].max_force }]_vars

\* the forces of an agent have been computed with a second agent in the
\* collection that is outside all three of its radii
FlockedWithoutNeighbour ==
    /\ pc = "update" /\ i = 1 /\ Len(boids) = 2
    /\ distance_to(boids[1].position, boids[2].position) >= boids[1].alignment_radius
    /\ distance_to(boids[1].position, boids[2].position) >= boids[1].cohesion_radius
    /\ distance_to(boids[1].position, boids[2].position) >= boids[1].separation_radius
    /\ boids[1].id \in flocked

\* C15 (clustering equals connected components): for every layout and list
\* order, the groups returned by _get_boid_groups are pairwise disjoint, each
\* of them is exactly one connected component, of at least two agents, of the
\* "closer than the threshold" graph, and every such component is returned.
ClusteringIsConnectedComponents ==
    LET merged_groups == _get_boid_groups(sim, boids)
        at(id) == CHOOSE b \in Range(boids) : b.id = id
        ids == { b.id : b \in Range(boids) }
        close(a, b) == /\ a # b
                       /\ distance_to(at(a).position, at(b).position)
                            < sim.boid_size + sim.cohesion_radius * 2
        grow(S) == S \cup { b \in ids : \E a \in S : close(a, b) }
        RECURSIVE closure(_, _)
        closure(S, n) == IF n = 0 THEN S ELSE closure(grow(S), n - 1)
        component(a) == closure({a}, Len(boids))
        components == { component(a) : a \in ids }
    IN /\ \A g, h \in DOMAIN merged_groups :
             g # h => merged_groups[g] \cap merged_groups[h] = {}
       /\ \A g \in DOMAIN merged_groups :
             /\ merged_groups[g] \in components
             /\ Cardinality(merged_groups[g]) >= 2
       /\ \A c \in components :
             Cardinality(c) >= 2 => \E g \in DOMAIN merged_groups : merged_groups[g] = c

\* C16 (stop takes effect at the tick boundary): in an iteration whose poll
\* of the stop signal found it set, no agent has its forces computed or is
\* integrated, no agent is added or removed, and no further iteration begins
\* after it.
StopAtTickBoundary ==
    [][seen.stop = "set"
         => /\ ~Flock /\ ~Update
            /\ ~AddBoid /\ ~RemoveBoid
            /\ ~LoopEnter]_vars

\* C17 (new agents use the current template): at the end of a tick in which
\* the loop has applied an update, with the control unit back from its
\* handler and no update pending, all agents of the collection, appended or
\* not, have the same size, the same three radii, the same max speed and the
\* same max force.
NewAgentsUseCurrentTemplate ==
    [][(/\ pc = "render" /\ pc' = "loop"
        /\ seen.update = "applied" /\ ctl.pc = "idle" /\ ~update_event)
        => \A j, k \in DOMAIN boids' :
             /\ boids'[j].boid_size = boids'[k].boid_size
             /\ boids'[j].separation_radius = boids'[k].separation_radius
             /\ boids'[j].cohesion_radius = boids'[k].cohesion_radius
             /\ boids'[j].alignment_radius = boids'[k].alignment_radius
             /\ boids'[j].max_speed = boids'[k].max_speed
             /\ boids'[j].max_force = boids'[k].max_force]_vars

\* C18 (the run unit owns the agents): the control unit is never iterating
\* the agent collection or holding one of its agents, and no step of the
\* control unit changes the collection or any field of an agent (a start or
\* a completed stop replaces or drops the whole Simulation object, which
\* shows as an empty collection).
RunUnitOwnsAgents ==
    /\ [](ctl.pc \notin {"upd_iter", "upd_boid"})
    /\ [][CtlNext => (boids' = boids \/ boids' = <<>>)]_vars

\* C19 (no operation fails on degenerate geometry): whenever the run loop is
\* about to call flock or update on an agent, the call returns without
\* raising, also when the desired velocity equals the agent's velocity and
\* when velocity plus accumulator is the zero vector.
NoFailureOnDegenerateGeometry ==
    /\ (pc = "flock" /\ i \in DOMAIN boids) => ~FlockRaises(boids[i], boids)
    /\ (pc = "update" /\ i \in DOMAIN boids) => ~UpdateRaises(boids[i])

\* C20 (group assignment after the colouring step): once _update_boid_colors
\* has run, an agent has no group and the default colour exactly when no
\* other agent is closer to it than the threshold; any other agent carries
\* the index of a returned group that contains it, and that group's colour.
\* Whatever group or colour an agent had before the step is gone.
GroupAssignmentAfterColouring ==
    pc = "pause_poll"
      => LET merged_groups == _get_boid_groups(sim, boids)
         IN \A j \in DOMAIN boids :
              LET alone == \A k \in DOMAIN boids :
                              k # j => distance_to(boids[j].position, boids[k].position)
                                         >= sim.boid_size + sim.cohesion_radius * 2
              IN /\ (boids[j].group = NoGroup /\ boids[j].color = DEFAULT_BOID_COLOR)
                      <=> alone
                 /\ ~alone
                      => /\ boids[j].group + 1 \in DOMAIN merged_groups
                         /\ boids[j].id \in merged_groups[boids[j].group + 1]
                         /\ boids[j].color = _get_group_color(boids[j].group)

\* the colouring step has run on A and D far from everyone and B and C close
\* to each other: one group, two agents without
LonelyAgentsAroundAPair ==
    /\ pc = "pause_poll" /\ Len(boids) = 4
    /\ \A j \in 1..4 : boids[j].id = j
    /\ boids[1].position + 14 = boids[2].position
    /\ boids[2].position + 3 = boids[3].position
    /\ boids[3].position + 14 = boids[4].position
    /\ sim.boid_size + sim.cohesion_radius * 2 = 8
    /\ boids[1].group = NoGroup /\ boids[4].group = NoGroup
    /\ boids[2].group = 0 /\ boids[3].group = 0

\* C21 (the stop signal is one-way within a run): a stop signal that is set
\* is reset by no step of the run unit; it is cleared only by a start() that
\* creates a run unit, hence only when no run unit is alive any more.
StopSignalIsOneWay ==
    [][(stop_event /\ ~stop_event')
         => /\ ~RunNext
            /\ threads' = threads + 1
            /\ alive = {}]_vars

=============================================================================
